---- MODULE Spec2Model ----
(***************************************************************************)
(* Session-multiplexed SSE transport layer of the Fleet MCP server         *)
(* (src/src/index.ts): the transports registry, the GET /mcp and           *)
(* POST /mcp/messages handlers and the SIGINT handler.                     *)
(*                                                                         *)
(* Node runs every handler on one event loop: the code between two awaits  *)
(* is one atomic step, and other handlers interleave only at an await.     *)
(* Every action below is one such synchronous stretch.                     *)
(*                                                                         *)
(* SSEServerTransport and McpServer are only declared in the repository    *)
(* (src/unnamed/part_001); their behaviour is modelled from sections 4.2,  *)
(* 5 and 6 of the specification.                                           *)
(***************************************************************************)
EXTENDS Integers, Sequences, FiniteSets, TLC

\* ---------------------------------------------------------------- bounds
\* GET /mcp requests, POST /mcp/messages requests and SIGINT deliveries of a
\* run, all together
MaxRequests == 3

Opens == 1..MaxRequests
Msgs == 1..MaxRequests
Signals == 1..MaxRequests
\* one identifier for each transport that can be constructed
SessionIds == 1..MaxRequests

\* the sessionId query parameter is absent or empty (index.ts:124)
NoSessionId == 0
\* the value of this.transports[sessionId] for an absent key
NoTransport == 0
\* no message
NoMsg == 0

VARIABLES
  registry,   \* this.transports: sequence of [sid, t] in insertion order
  tr,         \* per transport: lifecycle state, sessionId, on_close runs,
              \* close() calls made by SIGINT handlers
  opens,      \* per GET /mcp request: position of the handler
  msgs,       \* per POST /mcp/messages request: position, target, response
  mailbox,    \* per transport: messages handed off, not yet taken by the engine
  busy,       \* per transport: the message the engine is processing
  outbound,   \* per transport: responses written to the outbound sequence
  sweep,      \* per SIGINT delivery: position of the handler, errors logged
  exited,     \* process.exit has run
  nOpen, nMsg, nSig,  \* requests and signals received so far
  call        \* a list_host_software tool call: parameters, API response, result

vars == <<registry, tr, opens, msgs, mailbox, busy, outbound, sweep, exited,
          nOpen, nMsg, nSig, call>>

\* the run can take one more request or signal
MoreRequests == nOpen + nMsg + nSig < MaxRequests

\* requests of a run without signals
RelayRequests == MaxRequests + 1

MoreRelay == nOpen + nMsg + nSig < RelayRequests

\* a hand-off that rejected and whose catch block has not run yet
CatchPending == \E m \in Msgs : msgs[m].pc \in {"rejecting", "cancelled"}

\* the process runs and no rejected await is waiting for its catch block:
\* the continuation of a rejected await is queued when the promise rejects
\* and runs before any later event and before any await that settles later
Ready == ~exited /\ ~CatchPending

\* ------------------------------------------------------- registry (a JS object)

\* the own keys of this.transports in for-in order
RegKeys(reg) == [i \in DOMAIN reg |-> reg[i].sid]

HasKey(reg, sid) == \E i \in DOMAIN reg : reg[i].sid = sid

\* a lookup that falls back to the oldest entry
LookupOrFirst(reg, sid) ==
  IF HasKey(reg, sid)
  THEN reg[CHOOSE i \in DOMAIN reg : reg[i].sid = sid].t
  ELSE IF reg = <<>> THEN NoTransport ELSE reg[1].t

\* a lookup that ignores the key
LookupFirst(reg, sid) ==
  IF HasKey(reg, sid) THEN reg[1].t ELSE NoTransport

\* this.transports[sessionId]
Lookup(reg, sid) ==
  IF HasKey(reg, sid)
  THEN reg[CHOOSE i \in DOMAIN reg : reg[i].sid = sid].t
  ELSE NoTransport

\* a store that is lost
RegistryDrop(reg, sid, t) == reg

\* a store that never replaces
RegistryAppend(reg, sid, t) == Append(reg, [sid |-> sid, t |-> t])

\* this.transports[sessionId] = transport
RegistryPut(reg, sid, t) ==
  IF HasKey(reg, sid)
  THEN [i \in DOMAIN reg |->
          IF reg[i].sid = sid THEN [sid |-> sid, t |-> t] ELSE reg[i]]
  ELSE Append(reg, [sid |-> sid, t |-> t])

\* a removal by position, as in  list.splice(list.indexOf(key), 1): for an
\* absent key the position is -1 and the last entry goes
RegistrySplice(reg, sid) ==
  IF HasKey(reg, sid)
  THEN SelectSeq(reg, LAMBDA e : e.sid # sid)
  ELSE IF reg = <<>> THEN reg ELSE SubSeq(reg, 1, Len(reg) - 1)

\* delete this.transports[sessionId]
RegistryDelete(reg, sid) == SelectSeq(reg, LAMBDA e : e.sid # sid)

\* ------------------------------------------------ list_host_software tool

\* entries of response.data.software in one API response
MaxSoftware == 2

\* characters of names; a string is a sequence of characters
Chars == {"a", "A", "b"}

\* sw.name of the entries, and values of the software_name parameter
SoftwareNames == {<<"A", "b">>, <<"b">>}
NameParams == {<<>>, <<"a">>, <<"A">>, <<"a", "b">>, <<"b", "a">>}

\* an optional boolean parameter
OptBool == {"undefined", "true", "false"}

\* sw.installed_versions: null, absent, or an array; sw.status
Software ==
  [iv : {"null", "undefined", "array"}, status : {"installed", "pending"},
   name : SoftwareNames]

SoftwareLists ==
  UNION {[1..n -> Software] : n \in 0..MaxSoftware}

\* no tool call
NoCall == [pc |-> "none", afi |-> "undefined", io |-> "undefined",
           named |-> FALSE, name |-> <<>>, present |-> FALSE,
           software |-> <<>>, out |-> <<>>, count |-> 0]

\* the tool calls waiting for the Fleet API response: the parameters
\* available_for_install, installed_only, software_name (given or not) and
\* response.data.software (present or not)
Calls ==
  {[pc |-> "called", afi |-> a, io |-> i, named |-> nm[1], name |-> nm[2],
    present |-> sw[1], software |-> sw[2], out |-> <<>>, count |-> 0] :
     a \in OptBool, i \in OptBool,
     nm \in {<<FALSE, <<>> >>} \cup ({TRUE} \X NameParams),
     sw \in {<<FALSE, <<>> >>} \cup ({TRUE} \X SoftwareLists)}

\* String.prototype.toLowerCase
ToLowerChar(c) == IF c = "A" THEN "a" ELSE c
ToLowerCase(str) == [i \in DOMAIN str |-> ToLowerChar(str[i])]

\* String.prototype.includes
Includes(str, sub) ==
  \E i \in 0..(Len(str) - Len(sub)) : SubSeq(str, i + 1, i + Len(sub)) = sub

\* installed_only taken as false unless it is explicitly true
EffectiveInstalledOnlyStrict(c) == c.io = "true" /\ c.afi # "true"

\* let effectiveInstalledOnly = params.installed_only !== false;
\* if (params.available_for_install === true) effectiveInstalledOnly = false;
EffectiveInstalledOnly(c) ==
  IF c.afi = "true" THEN FALSE ELSE c.io # "false"

\* sw.installed_versions !== null || sw.status === "installed"
IsInstalled(sw) == sw.iv # "null" \/ sw.status = "installed"

\* sw.name.toLowerCase().includes(nameLower)
MatchesName(sw, nameLower) == Includes(ToLowerCase(sw.name), nameLower)

\* the software array the tool returns for call c
FilterSoftware(c) ==
  LET software == IF c.present THEN c.software ELSE <<>>
      installed == IF EffectiveInstalledOnly(c)
                   THEN SelectSeq(software, IsInstalled)
                   ELSE software
      nameLower == ToLowerCase(c.name)
      Matching(sw) == MatchesName(sw, nameLower)
  IN IF c.named /\ c.name # <<>>
     THEN SelectSeq(installed, Matching)
     ELSE installed

\* the Fleet API answered: filter, set software and count, return
ListHostSoftware ==
  /\ call.pc = "called"
  /\ call' = [call EXCEPT !.pc = "returned",
                          !.out = FilterSoftware(call),
                          !.count = Len(FilterSoftware(call))]
  /\ UNCHANGED <<registry, tr, opens, msgs, mailbox, busy, outbound, sweep,
                 exited, nOpen, nMsg, nSig>>

\* ------------------------------------------------------------ Init

NewTransport == [st |-> "New", sid |-> NoSessionId, runs |-> 0, swept |-> 0]

NewMsg == [pc |-> "new", sid |-> NoSessionId, t |-> NoTransport, resp |-> 0,
           n |-> 0]

\* a request that was answered: its sessionId parameter, its status code
\* and the number of responses sent for it
DoneMsg(sid, code) == [pc |-> "done", sid |-> sid, t |-> NoTransport,
                       resp |-> code, n |-> 1]

IdleSweep == [pc |-> "idle", keys |-> <<>>, cur |-> NoSessionId,
              curT |-> NoTransport, res |-> "none", errs |-> 0]

\* the server before any session
InitServer ==
  /\ registry = <<>>
  /\ tr = [t \in Opens |-> NewTransport]
  /\ opens = [o \in Opens |-> "idle"]
  /\ msgs = [m \in Msgs |-> NewMsg]
  /\ mailbox = [t \in Opens |-> <<>>]
  /\ busy = [t \in Opens |-> NoMsg]
  /\ outbound = [t \in Opens |-> <<>>]
  /\ sweep = [k \in Signals |-> IdleSweep]
  /\ exited = FALSE
  /\ nOpen = 0
  /\ nMsg = 0
  /\ nSig = 0

Init == InitServer /\ call = NoCall

\* ------------------------------------- SSEServerTransport (specification 4.2)

IsLive(st) == st \in {"Created", "Open"}

\* a close() that starts teardown again on a transport that is Closed
TransportCloseReopen(trf, t) ==
  [trf EXCEPT ![t].st = IF IsLive(@) \/ @ = "Closed" THEN "Closing" ELSE @]

\* a close() that notifies on_close again when teardown is already running
TransportCloseTwice(trf, t) ==
  [trf EXCEPT ![t].st = IF IsLive(@) THEN "Closing" ELSE @,
              ![t].runs = IF trf[t].st = "Closing" THEN @ + 1 ELSE @]

\* close(): the first request enters Closing, later ones are coalesced
TransportClose(trf, t) ==
  [trf EXCEPT ![t].st = IF IsLive(@) THEN "Closing" ELSE @]

\* closing a transport cancels the accept() calls pending on it
CancelPending(ms, t) ==
  [m \in Msgs |->
     IF ms[m].pc \in {"pending", "processing"} /\ ms[m].t = t
     THEN [ms[m] EXCEPT !.pc = "cancelled"]
     ELSE ms[m]]

\* the promise close() returns: pending while teardown runs, else resolved
ClosePromise(trf, t) == IF IsLive(trf[t].st) THEN "pending" ELSE "ok"

\* settle the close() promises the SIGINT handlers await on transport t
SettleSweeps(sw, t, res) ==
  [k \in Signals |->
     IF sw[k].pc = "awaiting" /\ sw[k].curT = t /\ sw[k].res = "pending"
     THEN [sw[k] EXCEPT !.res = res]
     ELSE sw[k]]

\* ------------------------------------------------ transport.onclose (binder)

\* an on_close whose sessionId is shared by all handlers: it deletes the
\* entry registered last
OnCloseLast(reg, sid) ==
  IF reg = <<>> THEN reg ELSE SubSeq(reg, 1, Len(reg) - 1)

\* an on_close that leaves the registry alone
OnCloseKeep(reg, sid) == reg

\* transport.onclose = () => { delete this.transports[sessionId] }
OnClose(reg, sid) == RegistryDelete(reg, sid)

\* an onclose assigned only after  await this.mcpServer.connect(transport)
OnCloseWiredLate(op) == op \in {"established", "failed"}

\* transport.onclose is assigned before mcpServer.connect is called: it is
\* in place whatever the position op of the GET /mcp handler
OnCloseWired(op) == TRUE

\* the transport t notifies its on_close
Notify(reg, t) ==
  IF OnCloseWired(opens[t]) THEN OnClose(reg, tr[t].sid) ELSE reg

\* ----------------------------------------------------------- GET /mcp

\* a for-in loop in progress may or may not visit a key added meanwhile
SweepSeesNew(sw, reg, sid, visit) ==
  [k \in Signals |->
     IF sw[k].pc = "awaiting" /\ k \in visit /\ ~HasKey(reg, sid)
     THEN [sw[k] EXCEPT !.keys = Append(@, sid)]
     ELSE sw[k]]

\* new SSEServerTransport(...) throws: the catch block answers 500
OpenConstructFails(o) ==
  /\ opens' = [opens EXCEPT ![o] = "failed"]
  /\ UNCHANGED <<registry, tr, sweep>>

\* construct, register, wire onclose, call mcpServer.connect (up to its await);
\* connect either starts the transport or leaves it unstarted and rejects
OpenRegister(o, ids) ==
  \E sid \in ids, ok \in BOOLEAN,
     visit \in SUBSET {k \in Signals : sweep[k].pc = "awaiting"} :
    /\ tr' = [tr EXCEPT ![o] = [st |-> IF ok THEN "Open" ELSE "Created",
                                sid |-> sid, runs |-> 0, swept |-> 0]]
    /\ registry' = RegistryPut(registry, sid, o)
    /\ sweep' = SweepSeesNew(sweep, registry, sid, visit)
    /\ opens' = [opens EXCEPT ![o] = IF ok THEN "connecting" ELSE "rejecting"]

HandleOpenWith(o, ids, more) ==
  /\ Ready
  /\ more
  /\ o = nOpen + 1
  /\ nOpen' = o
  /\ \/ OpenConstructFails(o)
     \/ OpenRegister(o, ids)
  /\ call' = call
  /\ UNCHANGED <<msgs, mailbox, busy, outbound, exited, nMsg, nSig>>

\* a generator that hands out the same identifier again
NewSessionIdAgain(o) == 1

\* the identifier a new transport generates: unique, never reused
\* (specification 3); the o-th request of the run gets the o-th identifier
NewSessionId(o) == o

HandleOpen(o) == HandleOpenWith(o, {NewSessionId(o)}, MoreRequests)

HandleOpenRelay(o) == HandleOpenWith(o, {NewSessionId(o)}, MoreRelay)

\* identifiers of the transports constructed so far
IssuedIds == {tr[t].sid : t \in {u \in Opens : tr[u].st # "New"}}

\* the transport's constructor may hand out any identifier: one already
\* handed out, or a new one (new ones are numbered in order of appearance)
HandleOpenAnyId(o) ==
  HandleOpenWith(o, IssuedIds \cup {Cardinality(IssuedIds) + 1}, MoreRequests)

\* await this.mcpServer.connect(transport) settles; the catch block answers
\* 500 unless headers were sent and leaves this.transports as it is
ConnectSettle(o) ==
  /\ Ready
  /\ \/ /\ opens[o] = "connecting"
        /\ opens' = [opens EXCEPT ![o] = "established"]
     \/ /\ opens[o] = "rejecting"
        /\ opens' = [opens EXCEPT ![o] = "failed"]
  /\ call' = call
  /\ UNCHANGED <<registry, tr, msgs, mailbox, busy, outbound, sweep, exited,
                 nOpen, nMsg, nSig>>

\* ---------------------------------------------------- POST /mcp/messages

\* a transport that still takes messages while it is closing
AcceptsWhileClosing(st) == st \in {"Open", "Closing"}

\* a transport accepts inbound messages only while it is Open
Accepts(st) == st = "Open"

\* a hand-off that puts the message in front of the waiting ones
AcceptFirst(box, t, m) == [box EXCEPT ![t] = <<m>> \o @]

\* transport.handlePostMessage on an open transport: hand-off to the engine
Accept(box, t, m) == [box EXCEPT ![t] = Append(@, m)]

\* a handler that calls handlePostMessage twice
ForwardTwice(box, t, m) == Accept(Accept(box, t, m), t, m)

\* await transport.handlePostMessage(req, res, req.body): one call
Forward(box, t, m) == Accept(box, t, m)

\* the sessionId parameter of a request: none, one of the identifiers handed
\* out so far, or one not handed out yet
RequestIds(n) == {NoSessionId} \cup {sid \in SessionIds : sid <= n + 1}

\* a check that lets every request through
MissingIdNever(sid) == FALSE

\* if (!sessionId): the query parameter is absent or the empty string
MissingId(sid) == sid = NoSessionId

\* a server that handles one POST /mcp/messages request at a time
DispatchSerial(ms) == \A x \in Msgs : ms[x].pc \notin {"pending", "processing"}

\* express calls the async handler for every request as it arrives: no lock,
\* no queue shared by the sessions
Dispatch(ms) == TRUE

\* the handler up to  await transport.handlePostMessage(req, res, req.body)
HandleMessageWith(m, more) ==
  /\ Ready
  /\ more
  /\ Dispatch(msgs)
  /\ m = nMsg + 1
  /\ nMsg' = m
  /\ \E sid \in RequestIds(nOpen) :
       LET t == Lookup(registry, sid) IN
       IF MissingId(sid)
       THEN /\ msgs' = [msgs EXCEPT ![m] = DoneMsg(sid, 400)]
            /\ mailbox' = mailbox
       ELSE IF t = NoTransport
       THEN /\ msgs' = [msgs EXCEPT ![m] = DoneMsg(sid, 404)]
            /\ mailbox' = mailbox
       ELSE IF Accepts(tr[t].st)
       THEN /\ msgs' = [msgs EXCEPT ![m] = [pc |-> "pending", sid |-> sid,
                                            t |-> t, resp |-> 0, n |-> 0]]
            /\ mailbox' = Forward(mailbox, t, m)
       ELSE /\ msgs' = [msgs EXCEPT ![m] = [pc |-> "rejecting", sid |-> sid,
                                            t |-> t, resp |-> 0, n |-> 0]]
            /\ mailbox' = mailbox
  /\ call' = call
  /\ UNCHANGED <<registry, tr, opens, busy, outbound, sweep, exited,
                 nOpen, nSig>>

HandleMessage(m) == HandleMessageWith(m, MoreRequests)

HandleMessageRelay(m) == HandleMessageWith(m, MoreRelay)

\* an engine that takes the next message while it processes another one
EngineBeginAny(t) ==
  /\ Ready
  /\ tr[t].st = "Open"
  /\ mailbox[t] # <<>>
  /\ busy' = [busy EXCEPT ![t] = Head(mailbox[t])]
  /\ mailbox' = [mailbox EXCEPT ![t] = Tail(@)]
  /\ msgs' = [msgs EXCEPT ![Head(mailbox[t])].pc = "processing"]
  /\ call' = call
  /\ UNCHANGED <<registry, tr, opens, outbound, sweep, exited,
                 nOpen, nMsg, nSig>>

\* the engine takes the next message of an open transport, one at a time
EngineBegin(t) ==
  /\ Ready
  /\ tr[t].st = "Open"
  /\ busy[t] = NoMsg
  /\ mailbox[t] # <<>>
  /\ busy' = [busy EXCEPT ![t] = Head(mailbox[t])]
  /\ mailbox' = [mailbox EXCEPT ![t] = Tail(@)]
  /\ msgs' = [msgs EXCEPT ![Head(mailbox[t])].pc = "processing"]
  /\ call' = call
  /\ UNCHANGED <<registry, tr, opens, outbound, sweep, exited,
                 nOpen, nMsg, nSig>>

\* the engine answers on the transport and handlePostMessage resolves
EngineEnd(t) ==
  /\ Ready
  /\ tr[t].st = "Open"
  /\ busy[t] # NoMsg
  /\ outbound' = [outbound EXCEPT ![t] = Append(@, busy[t])]
  /\ msgs' = [msgs EXCEPT ![busy[t]] = DoneMsg(@.sid, 202)]
  /\ busy' = [busy EXCEPT ![t] = NoMsg]
  /\ call' = call
  /\ UNCHANGED <<registry, tr, opens, mailbox, sweep, exited,
                 nOpen, nMsg, nSig>>

\* a catch block that swallows the error and sends nothing
CatchSilent(sid) == DoneMsg(sid, 0)

\* the request ends with an error status, sent by the transport or, if no
\* headers were sent, by  res.status(500).send(...)  of the catch block
CatchResponse(sid) == DoneMsg(sid, 500)

\* a catch block that answers whether or not a response was started
CatchSendsAlways(headersSent) == 1

\* if (!res.headersSent) res.status(500).send(...): responses the catch
\* block sends
CatchSends(headersSent) == IF headersSent THEN 0 ELSE 1

\* a catch block that also drops the session of the failed hand-off
MessageCatchEvict(m) ==
  /\ ~exited
  /\ msgs[m].pc \in {"rejecting", "cancelled"}
  /\ msgs' = [msgs EXCEPT ![m] = CatchResponse(@.sid)]
  /\ registry' = RegistryDelete(registry, msgs[m].sid)
  /\ call' = call
  /\ UNCHANGED <<tr, opens, mailbox, busy, outbound, sweep, exited,
                 nOpen, nMsg, nSig>>

\* a handler without a catch block: a hand-off rejected at once ends with
\* no response
MessageCatchLost(m) ==
  /\ ~exited
  /\ msgs[m].pc \in {"rejecting", "cancelled"}
  /\ msgs' = [msgs EXCEPT ![m] = IF @.pc = "rejecting"
                                 THEN DoneMsg(@.sid, 0)
                                 ELSE CatchResponse(@.sid)]
  /\ call' = call
  /\ UNCHANGED <<registry, tr, opens, mailbox, busy, outbound, sweep, exited,
                 nOpen, nMsg, nSig>>

\* handlePostMessage rejected, at the hand-off or when the transport closed
\* under it, after the transport started a response of its own or not: the
\* catch block runs
MessageCatch(m) ==
  /\ ~exited
  /\ msgs[m].pc \in {"rejecting", "cancelled"}
  /\ \E headersSent \in BOOLEAN :
       msgs' = [msgs EXCEPT ![m] =
                  [CatchResponse(@.sid) EXCEPT
                     !.n = (IF headersSent THEN 1 ELSE 0)
                             + CatchSends(headersSent)]]
  /\ call' = call
  /\ UNCHANGED <<registry, tr, opens, mailbox, busy, outbound, sweep, exited,
                 nOpen, nMsg, nSig>>

\* ------------------------------------------------- closing a transport

\* the mailbox and the engine slot of a transport that stopped accepting
DropMailbox(box, t) == [box EXCEPT ![t] = <<>>]

\* the client drops the stream: the transport closes itself
ClientDisconnect(t) ==
  /\ Ready
  /\ tr[t].st = "Open"
  /\ tr' = TransportClose(tr, t)
  /\ msgs' = CancelPending(msgs, t)
  /\ mailbox' = DropMailbox(mailbox, t)
  /\ busy' = [busy EXCEPT ![t] = NoMsg]
  /\ call' = call
  /\ UNCHANGED <<registry, opens, outbound, sweep, exited, nOpen, nMsg, nSig>>

\* teardown completes: Closed, on_close notified, close() resolves
CloseFinish(t) ==
  /\ Ready
  /\ tr[t].st = "Closing"
  /\ tr' = [tr EXCEPT ![t].st = "Closed", ![t].runs = @ + 1]
  /\ registry' = Notify(registry, t)
  /\ sweep' = SettleSweeps(sweep, t, "ok")
  /\ call' = call
  /\ UNCHANGED <<opens, msgs, mailbox, busy, outbound, exited,
                 nOpen, nMsg, nSig>>

\* teardown fails: close() rejects, on_close may or may not have run
CloseFail(t) ==
  /\ Ready
  /\ tr[t].st = "Closing"
  /\ \E ran \in BOOLEAN :
       /\ tr' = [tr EXCEPT ![t].st = "Closed",
                           ![t].runs = IF ran THEN @ + 1 ELSE @]
       /\ registry' = IF ran THEN Notify(registry, t) ELSE registry
  /\ sweep' = SettleSweeps(sweep, t, "err")
  /\ call' = call
  /\ UNCHANGED <<opens, msgs, mailbox, busy, outbound, exited,
                 nOpen, nMsg, nSig>>

\* ------------------------------------------------------- SIGINT handler

\* positions of the keys still to visit that are still properties
LiveKeyIdx(reg, keys) == {i \in DOMAIN keys : HasKey(reg, keys[i])}

\* one turn of  for (const sessionId in this.transports)  up to its await,
\* or, with no key left, httpServer.close() and process.exit(0)
SweepAdvance(k, sw, reg, keys, errs) ==
  LET live == LiveKeyIdx(reg, keys) IN
  IF live = {}
  THEN /\ sweep' = [sw EXCEPT ![k] = [pc |-> "exited", keys |-> <<>>,
                       cur |-> NoSessionId, curT |-> NoTransport,
                       res |-> "none", errs |-> errs]]
       /\ exited' = TRUE
       /\ UNCHANGED <<tr, msgs, mailbox, busy>>
  ELSE LET i == CHOOSE j \in live : \A h \in live : j <= h
           sid == keys[i]
           t == Lookup(reg, sid)
       IN /\ sweep' = [sw EXCEPT ![k] = [pc |-> "awaiting",
                          keys |-> SubSeq(keys, i + 1, Len(keys)),
                          cur |-> sid, curT |-> t,
                          res |-> ClosePromise(tr, t), errs |-> errs]]
          /\ exited' = FALSE
          /\ tr' = [TransportClose(tr, t) EXCEPT ![t].swept = @ + 1]
          /\ msgs' = CancelPending(msgs, t)
          /\ mailbox' = DropMailbox(mailbox, t)
          /\ busy' = [busy EXCEPT ![t] = NoMsg]

\* the status the handler passes to process.exit after logging errs failed
\* close() calls: process.exit(0)
ExitCode(errs) == 0

\* process.on('SIGINT'): the handler starts and runs to its first await
Signal(k) ==
  /\ Ready
  /\ MoreRequests
  /\ k = nSig + 1
  /\ nSig' = k
  /\ registry' = registry
  /\ SweepAdvance(k, sweep, registry, RegKeys(registry), 0)
  /\ call' = call
  /\ UNCHANGED <<opens, outbound, nOpen, nMsg>>

\* the catch block of the loop: log, stop visiting
AfterCloseAbort(keys, res) == IF res = "err" THEN <<>> ELSE keys

\* the catch block of the loop: log, go on with the next key
AfterClose(keys, res) == keys

\* a delete placed after the try block: it runs also when close() threw
SweepDeletesAlways(res) == TRUE

\* delete this.transports[sessionId] follows the await inside the try
\* block: it runs when close() resolved and is skipped when it threw
SweepDeletes(res) == res = "ok"

\* a loop without try/catch: a close() that throws ends the handler
ContinuesIfResolved(res) == res = "ok"

\* the handler goes on after its await when close() resolved and, through
\* the catch block, when it threw; there is no timeout on the await
Continues(res) == res \in {"ok", "err"}

\* await close() settled: delete the entry or log the error, then go on
SweepResume(k) ==
  /\ Ready
  /\ sweep[k].pc = "awaiting"
  /\ Continues(sweep[k].res)
  /\ LET reg == IF SweepDeletes(sweep[k].res)
                THEN RegistryDelete(registry, sweep[k].cur)
                ELSE registry
     IN /\ registry' = reg
        /\ SweepAdvance(k, sweep, reg, AfterClose(sweep[k].keys, sweep[k].res),
                        IF sweep[k].res = "err" THEN sweep[k].errs + 1
                                                ELSE sweep[k].errs)
  /\ call' = call
  /\ UNCHANGED <<opens, outbound, nOpen, nMsg, nSig>>

\* ------------------------------------------------------ specifications

Next ==
  \/ \E o \in Opens : HandleOpen(o)
  \/ \E o \in Opens : ConnectSettle(o)
  \/ \E m \in Msgs : HandleMessage(m)
  \/ \E m \in Msgs : MessageCatch(m)
  \/ \E t \in Opens : EngineBegin(t)
  \/ \E t \in Opens : EngineEnd(t)
  \/ \E t \in Opens : ClientDisconnect(t)
  \/ \E t \in Opens : CloseFinish(t)
  \/ \E t \in Opens : CloseFail(t)
  \/ \E k \in Signals : Signal(k)
  \/ \E k \in Signals : SweepResume(k)

Spec == Init /\ [][Next]_vars

\* the event loop runs every continuation whose promise has settled: the
\* catch block of a rejected hand-off and the SIGINT handler after its await
FairSpec ==
  /\ Spec
  /\ \A m \in Msgs : WF_vars(MessageCatch(m))
  /\ \A k \in Signals : WF_vars(SweepResume(k))

\* sessions and messages without shutdown, one request more
NextRelay ==
  \/ \E o \in Opens : HandleOpenRelay(o)
  \/ \E o \in Opens : ConnectSettle(o)
  \/ \E m \in Msgs : HandleMessageRelay(m)
  \/ \E m \in Msgs : MessageCatch(m)
  \/ \E t \in Opens : EngineBegin(t)
  \/ \E t \in Opens : EngineEnd(t)
  \/ \E t \in Opens : ClientDisconnect(t)
  \/ \E t \in Opens : CloseFinish(t)

SpecRelay == Init /\ [][NextRelay]_vars

\* one list_host_software call, over the parameters and API responses
InitTool == InitServer /\ call \in Calls

NextTool == ListHostSoftware

SpecTool == InitTool /\ [][NextTool]_vars

\* opens, closures and shutdown over identifiers that may collide
NextAnyId ==
  \/ \E o \in Opens : HandleOpenAnyId(o)
  \/ \E o \in Opens : ConnectSettle(o)
  \/ \E t \in Opens : ClientDisconnect(t)
  \/ \E t \in Opens : CloseFinish(t)
  \/ \E t \in Opens : CloseFail(t)
  \/ \E k \in Signals : Signal(k)
  \/ \E k \in Signals : SweepResume(k)

SpecAnyId == Init /\ [][NextAnyId]_vars

\* ------------------------------------------------------------ claims

Registered(reg, sid) == \E i \in DOMAIN reg : reg[i].sid = sid

CountIn(seq, m) == Cardinality({i \in DOMAIN seq : seq[i] = m})

\* the messages of transport t the engine still holds, oldest first
Held(t) == (IF busy[t] = NoMsg THEN <<>> ELSE <<busy[t]>>) \o mailbox[t]

\* the handler of request m runs in this step
Handled(m) == msgs[m].pc = "new" /\ msgs'[m].pc # "new"

\* C1: the registry never holds two entries, hence never two transports,
\* under one session identifier, whatever identifiers the transports carry
C1_OnePerSession ==
  \A i, j \in DOMAIN registry :
    registry[i].sid = registry[j].sid => i = j

\* two live transports carry the same identifier and it is registered
C1_Witness ==
  \E t1, t2 \in Opens :
    /\ t1 # t2
    /\ IsLive(tr[t1].st) /\ IsLive(tr[t2].st)
    /\ tr[t1].sid = tr[t2].sid
    /\ Registered(registry, tr[t1].sid)

C3_ClosedStaysNotFound ==
  [][\A m \in Msgs, t \in Opens :
       (Handled(m) /\ tr[t].st # "New" /\ msgs'[m].sid = tr[t].sid) =>
         /\ tr[t].runs > 0 =>
              (msgs'[m] = DoneMsg(tr[t].sid, 404) /\ mailbox' = mailbox)
         /\ tr[t].st = "Open" =>
              (msgs'[m].pc = "pending" /\ mailbox'[t] = Append(mailbox[t], m))]_vars

\* a session was closed and a request tagged with it was answered 404
C3_Witness ==
  \E m \in Msgs, t \in Opens :
    /\ tr[t].runs > 0
    /\ msgs[m] = DoneMsg(tr[t].sid, 404)

\* C4: when handle_open has failed, the registry holds no entry for the
\* transport of that request
C4_NoPartialRegistration ==
  \A o \in Opens :
    opens[o] = "failed" => ~\E i \in DOMAIN registry : registry[i].t = o

C6_SubmissionOrder ==
  \A t \in Opens :
    LET s == outbound[t] \o Held(t) IN
    \A i, j \in DOMAIN s : i < j => s[i] < s[j]

\* a second message was submitted while the engine processes the first
C6_Witness ==
  \E t \in Opens : busy[t] # NoMsg /\ mailbox[t] # <<>>

\* C7: a message handed off on an open session is with the engine exactly
\* once, and once answered its response is exactly once on the outbound
\* sequence of its own session and on no other
C7_ExactlyOnce ==
  \A m \in Msgs :
    /\ msgs[m].pc \in {"pending", "processing"} =>
         /\ CountIn(Held(msgs[m].t), m) = 1
         /\ \A t \in Opens : t # msgs[m].t => CountIn(Held(t), m) = 0
         /\ \A t \in Opens : CountIn(outbound[t], m) = 0
    /\ (msgs[m].pc = "done" /\ msgs[m].resp = 202) =>
         /\ \A t \in Opens : CountIn(Held(t), m) = 0
         /\ \A t \in Opens :
              CountIn(outbound[t], m) = IF tr[t].sid = msgs[m].sid THEN 1 ELSE 0
    /\ (msgs[m].pc \notin {"pending", "processing", "done"}
          \/ msgs[m].resp \notin {0, 202}) =>
         \A t \in Opens : CountIn(Held(t), m) = 0 /\ CountIn(outbound[t], m) = 0

\* a request was answered 202 and its response is on its session's outbound
C7_Witness ==
  \E m \in Msgs, t \in Opens :
    /\ msgs[m].pc = "done" /\ msgs[m].resp = 202
    /\ tr[t].sid = msgs[m].sid
    /\ CountIn(outbound[t], m) = 1

\* C8: when the process exits, no transport that was registered is left
\* without a close request
C8_AllClosedAtExit ==
  exited => \A t \in Opens : ~IsLive(tr[t].st)

\* the SIGINT handler k continues after its await in this step
Resumed(k) ==
  <<sweep'[k].pc, sweep'[k].cur, sweep'[k].res>> #
    <<sweep[k].pc, sweep[k].cur, sweep[k].res>>

\* C9: when a close() awaited by the SIGINT handler has failed, the handler
\* logs the error and goes on: it calls close() on the next key that is still
\* registered, or, with none left, exits
C9_SweepSurvivesFailure ==
  [][\A k \in Signals :
       (sweep[k].pc = "awaiting" /\ sweep[k].res = "err" /\ Resumed(k)) =>
         LET keys == sweep[k].keys
             left == {i \in DOMAIN keys : Registered(registry, keys[i])}
         IN /\ sweep'[k].errs = sweep[k].errs + 1
            /\ IF left = {}
               THEN exited' /\ sweep'[k].pc = "exited"
               ELSE /\ ~exited'
                    /\ sweep'[k].pc = "awaiting"
                    /\ \E i \in left :
                         /\ \A h \in left : i <= h
                         /\ sweep'[k].cur = keys[i]
                    /\ ~IsLive(tr'[sweep'[k].curT].st)]_vars

\* the handler logged a failed close, went on to another transport and exited
C9_Witness ==
  /\ exited
  /\ \E k \in Signals : sweep[k].pc = "exited" /\ sweep[k].errs = 1
  /\ \E t1, t2 \in Opens : t1 < t2 /\ tr[t1].st = "Closed" /\ tr[t2].st = "Closed"

\* C10: once a SIGINT handler has started, no entry is added to the registry
C10_NoOpenAfterShutdown ==
  [][(\E k \in Signals : sweep[k].pc # "idle") =>
       \A i \in DOMAIN registry' :
         \E j \in DOMAIN registry : registry[j] = registry'[i]]_vars

\* C11: the SIGINT handlers call close() at most once on each transport,
\* however many times the signal is delivered
C11_ClosedOnceBySweep ==
  \A t \in Opens : tr[t].swept <= 1

\* C12: a handle_message call whose transport is closed while the call is
\* pending inside the hand-off is eventually answered with the error status;
\* it does not hang and is not dropped
C12_PendingResolves ==
  \A m \in Msgs :
    (\/ msgs[m].pc = "cancelled"
     \/ /\ msgs[m].pc \in {"pending", "processing"}
        /\ tr[msgs[m].t].st # "Open")
      ~> (msgs[m].pc = "done" /\ msgs[m].resp = 500)

\* the SIGINT handler closed a transport while a call was pending on it
C12_Witness ==
  \E m \in Msgs, k \in Signals :
    /\ msgs[m].pc = "cancelled"
    /\ sweep[k].pc = "awaiting" /\ sweep[k].curT = msgs[m].t
    /\ tr[msgs[m].t].st = "Closing"

C14_RemoveIdempotent ==
  [][/\ \A sid \in SessionIds :
          ~Registered(registry, sid) => RegistryDelete(registry, sid) = registry
     /\ \A sid \in SessionIds :
          RegistryDelete(RegistryDelete(registry, sid), sid)
            = RegistryDelete(registry, sid)
     /\ \A k \in Signals :
          (/\ sweep[k].pc = "awaiting" /\ sweep[k].res = "ok" /\ Resumed(k)
           /\ ~Registered(registry, sweep[k].cur)) => registry' = registry]_vars

\* a SIGINT handler is about to delete an entry that on_close already
\* deleted, while another session is registered
C14_Witness ==
  \E k \in Signals :
    /\ sweep[k].pc = "awaiting" /\ sweep[k].res = "ok"
    /\ ~Registered(registry, sweep[k].cur)
    /\ registry # <<>>

\* C15: a request for a session whose transport is Closing or Closed is not
\* handed to the engine: it is answered 404, or its hand-off is rejected and
\* the request is then answered 500; the process does not exit with such a
\* request unanswered, and every rejected hand-off is eventually answered
C15_ClosedRejects ==
  /\ [][\A m \in Msgs :
          /\ \A t \in Opens :
               (/\ Handled(m)
                /\ tr[t].st \in {"Closing", "Closed"}
                /\ msgs'[m].sid = tr[t].sid) =>
                 /\ \/ msgs'[m] = DoneMsg(tr[t].sid, 404)
                    \/ msgs'[m].pc = "rejecting" /\ msgs'[m].t = t
                 /\ mailbox' = mailbox
                 /\ busy' = busy
          /\ (msgs[m].pc = "rejecting" /\ msgs'[m] # msgs[m]) =>
               msgs'[m] = DoneMsg(msgs[m].sid, 500)
          /\ exited' => msgs'[m].pc # "rejecting"]_vars
  /\ \A m \in Msgs :
       msgs[m].pc = "rejecting" ~> (msgs[m].pc = "done" /\ msgs[m].resp = 500)

\* both outcomes happened: one request was answered 404 for a session whose
\* transport is Closed, another 500 for a transport that was still registered
C15_Witness ==
  \E m1, m2 \in Msgs, t1, t2 \in Opens :
    /\ tr[t1].st = "Closed" /\ msgs[m1] = DoneMsg(tr[t1].sid, 404)
    /\ tr[t2].st \in {"Closing", "Closed"} /\ msgs[m2] = DoneMsg(tr[t2].sid, 500)

\* the messages being processed on transport t
Processing(t) == {m \in Msgs : msgs[m].pc = "processing" /\ msgs[m].t = t}

C17_NoHeadOfLineBlocking ==
  \A m1 \in Msgs, t2 \in Opens :
    (/\ Ready
     /\ msgs[m1].pc \in {"pending", "processing"}
     /\ msgs[m1].t # t2
     /\ tr[t2].st = "Open") =>
      /\ (MoreRelay /\ nMsg < MaxRequests) => ENABLED HandleMessageRelay(nMsg + 1)
      /\ (mailbox[t2] # <<>> /\ busy[t2] = NoMsg) => ENABLED EngineBegin(t2)
      /\ busy[t2] # NoMsg => ENABLED EngineEnd(t2)

\* a request of session S2 submitted after one of S1 was answered while the
\* request of S1 is still being processed
C17_Witness ==
  \E m1, m2 \in Msgs, t1, t2 \in Opens :
    /\ t1 # t2 /\ m1 < m2
    /\ msgs[m1].pc = "processing" /\ msgs[m1].t = t1
    /\ tr[t2].st = "Open"
    /\ msgs[m2] = DoneMsg(tr[t2].sid, 202)
    /\ outbound[t2] = <<m2>>

\* C18: the SIGINT handler exits with status 0 when every close() it awaited
\* succeeded, and with a non-zero status when at least one failed
C18_ExitCodeTellsFailure ==
  \A k \in Signals :
    sweep[k].pc = "exited" =>
      (ExitCode(sweep[k].errs) = 0 <=> sweep[k].errs = 0)

\* C19: list_host_software returns the entries of the API response, in
\* order, that pass the installed-only filter (applied unless
\* available_for_install is true or installed_only is false; it keeps the
\* entries with installed_versions not null or status "installed") and then
\* the name filter; count is the number of entries returned
C19_SoftwareFilter ==
  call.pc = "returned" =>
    LET given == IF call.present THEN call.software ELSE <<>>
        installedOnly == call.afi # "true" /\ call.io # "false"
        byName == call.named /\ call.name # <<>>
        Keep(sw) ==
          /\ installedOnly => (sw.iv # "null" \/ sw.status = "installed")
          /\ byName => Includes(ToLowerCase(sw.name), ToLowerCase(call.name))
    IN /\ call.out = SelectSeq(given, Keep)
       /\ call.count = Len(call.out)

\* available_for_install and installed_only were both true and an entry that
\* is not installed was returned; the name filter removed another entry
C19_Witness ==
  /\ call.pc = "returned"
  /\ call.afi = "true" /\ call.io = "true"
  /\ call.named /\ call.name # <<>>
  /\ Len(call.software) = 2 /\ call.count = 1
  /\ \E i \in DOMAIN call.out :
       call.out[i].iv = "null" /\ call.out[i].status = "pending"

\* position of a lifecycle state in  Created, Open, Closing, Closed
Rank(st) ==
  CASE st = "New" -> 0
    [] st = "Created" -> 1
    [] st = "Open" -> 2
    [] st = "Closing" -> 3
    [] st = "Closed" -> 4

\* C20: a transport's state never moves backward; a live transport leaves
\* its state only for the next one, and on a close request for Closing; a
\* close request on a transport that is Closing or Closed changes nothing of
\* it; Closing is left only for Closed, and Closed is never left
C20_LifecycleForward ==
  [][\A t \in Opens :
       /\ Rank(tr'[t].st) >= Rank(tr[t].st)
       /\ tr[t].st = "New" => tr'[t].st \in {"New", "Created", "Open"}
       /\ tr[t].st = "Created" => tr'[t].st \in {"Created", "Open", "Closing"}
       /\ tr[t].st = "Open" => tr'[t].st \in {"Open", "Closing"}
       /\ tr[t].st = "Closing" => tr'[t].st \in {"Closing", "Closed"}
       /\ tr[t].st = "Closed" => tr'[t].st = "Closed"
       /\ tr'[t].swept > tr[t].swept =>
            /\ tr'[t].st = IF IsLive(tr[t].st) THEN "Closing" ELSE tr[t].st
            /\ tr'[t].runs = tr[t].runs]_vars

\* a SIGINT handler called close() on a transport another one had already
\* closed: the request found it Closed and is a no-op
C20_Witness ==
  \E k \in Signals :
    /\ sweep[k].pc = "awaiting" /\ sweep[k].res = "ok"
    /\ tr[sweep[k].curT].st = "Closed"
    /\ tr[sweep[k].curT].swept = 2

\* the registry holds an entry for transport t
Holds(reg, t) == \E i \in DOMAIN reg : reg[i].t = t

C22_NoIdReuse ==
  [][/\ \A t \in Opens :
          (tr[t].st = "New" /\ tr'[t].st # "New") => tr'[t].sid \notin IssuedIds
     /\ \A m \in Msgs :
          msgs'[m].pc \in {"pending", "processing"} =>
            tr'[msgs'[m].t].sid = msgs'[m].sid]_vars

\* a session was closed and freed, a later session is registered, and a
\* late request carrying the freed identifier was answered 404
C22_Witness ==
  \E t1, t2 \in Opens, m \in Msgs :
    /\ t1 < t2
    /\ tr[t1].runs = 1 /\ ~Registered(registry, tr[t1].sid)
    /\ IsLive(tr[t2].st) /\ Holds(registry, t2)
    /\ msgs[m] = DoneMsg(tr[t1].sid, 404)

\* C23: when the GET /mcp handler suspends at the attachment, the transport
\* is constructed and registered, and nothing is registered when construction
\* fails; a transport that reports closure at any time after that, also
\* before the attachment has finished, is removed from the registry
C23_RegisterBeforeAttach ==
  [][\A o \in Opens :
       /\ (opens[o] = "idle" /\ opens'[o] \in {"connecting", "rejecting"}) =>
            /\ tr'[o].st # "New"
            /\ Lookup(registry', tr'[o].sid) = o
       /\ (opens[o] = "idle" /\ opens'[o] = "failed") =>
            /\ registry' = registry
            /\ tr'[o].st = "New"
       /\ tr'[o].runs > tr[o].runs =>
            ~Holds(registry', o) /\ ~Registered(registry', tr[o].sid)]_vars

\* a transport reported closure while its attachment was still in progress
\* and its entry is gone
C23_Witness ==
  \E o \in Opens :
    /\ opens[o] = "connecting"
    /\ tr[o].st = "Closed" /\ tr[o].runs = 1
    /\ ~Holds(registry, o)

\* C24: a request that arrives for a session whose transport is Closing and
\* still registered is not handed to the engine: its hand-off is rejected and
\* the request is then answered with the error status
C24_MidCloseRejected ==
  [][\A m \in Msgs :
       /\ \A t \in Opens :
            (/\ Handled(m)
             /\ tr[t].st = "Closing" /\ Holds(registry, t)
             /\ msgs'[m].sid = tr[t].sid) =>
              /\ msgs'[m].pc = "rejecting" /\ msgs'[m].t = t
              /\ mailbox' = mailbox /\ busy' = busy /\ outbound' = outbound
       /\ (/\ msgs[m].pc = "rejecting"
           /\ tr[msgs[m].t].st = "Closing"
           /\ msgs'[m] # msgs[m]) =>
            msgs'[m] = DoneMsg(msgs[m].sid, 500) /\ mailbox' = mailbox]_vars

\* a request arrived while a SIGINT handler awaits close() on its session's
\* transport, and its hand-off was rejected
C24_Witness ==
  \E m \in Msgs, k \in Signals :
    /\ sweep[k].pc = "awaiting" /\ sweep[k].res = "pending"
    /\ sweep[k].curT = msgs[m].t
    /\ tr[msgs[m].t].st = "Closing" /\ Holds(registry, msgs[m].t)
    /\ msgs[m].pc = "rejecting"

\* C25: a request without a sessionId parameter is answered 400 whatever
\* the registry holds, and nothing is handed to any transport: the
\* mailboxes, the engine slots, the transports and the registry stay as
\* they were
C25_MissingIdIs400 ==
  [][\A m \in Msgs :
       (Handled(m) /\ msgs'[m].sid = NoSessionId) =>
         /\ msgs'[m] = DoneMsg(NoSessionId, 400)
         /\ mailbox' = mailbox /\ busy' = busy /\ outbound' = outbound
         /\ tr' = tr /\ registry' = registry]_vars

\* a request without a sessionId was answered 400 while a session is open
\* and registered
C25_Witness ==
  \E m \in Msgs, t \in Opens :
    /\ msgs[m] = DoneMsg(NoSessionId, 400)
    /\ tr[t].st = "Open" /\ Holds(registry, t)

\* C26: every request that was handled has exactly one response, with
\* status 400, 404 or 500 from the handler or the transport's own, and a
\* request still inside the handler has none
C26_OneResponse ==
  \A m \in Msgs :
    /\ msgs[m].pc = "done" =>
         msgs[m].n = 1 /\ msgs[m].resp \in {202, 400, 404, 500}
    /\ msgs[m].pc # "done" => msgs[m].n = 0 /\ msgs[m].resp = 0

\* one request was answered by the transport after a successful hand-off,
\* another got the error status after a rejected hand-off, each once
C26_Witness ==
  \E m1, m2 \in Msgs :
    /\ msgs[m1].resp = 202 /\ msgs[m1].n = 1
    /\ msgs[m2].resp = 500 /\ msgs[m2].n = 1

\* the POST /mcp/messages handler of request m runs in this step: it starts,
\* its hand-off resolves, or its catch block runs
HandlerStep(m) ==
  \/ Handled(m)
  \/ msgs[m].pc \in {"processing", "rejecting", "cancelled"}
       /\ msgs'[m].pc = "done"

\* C27: no step of a POST /mcp/messages handler changes the registry; an
\* entry appears only in the step of a GET /mcp handler, for that handler's
\* transport, and disappears only when its transport's on_close runs or a
\* SIGINT handler resumes after a close() of that entry that resolved
C27_RegistryFrame ==
  [][/\ (\E m \in Msgs : HandlerStep(m)) => registry' = registry
     /\ \A i \in DOMAIN registry' :
          ~(\E j \in DOMAIN registry : registry[j] = registry'[i]) =>
            nOpen' = nOpen + 1 /\ registry'[i].t = nOpen'
     /\ \A j \in DOMAIN registry :
          ~(\E i \in DOMAIN registry' : registry'[i] = registry[j]) =>
            \/ tr'[registry[j].t].runs > tr[registry[j].t].runs
            \/ \E k \in Signals :
                 /\ Resumed(k) /\ sweep[k].res = "ok"
                 /\ sweep[k].cur = registry[j].sid]_vars

\* a hand-off threw and was answered 500 while the session is still
\* registered, and another request was answered 404
C27_Witness ==
  \E m1, m2 \in Msgs, t \in Opens :
    /\ msgs[m1] = DoneMsg(tr[t].sid, 500) /\ Holds(registry, t)
    /\ msgs[m2].resp = 404

\* the registry without the entry of sid, the others in place
Without(reg, sid) == SelectSeq(reg, LAMBDA e : e.sid # sid)

\* C28: when the on_close of a transport runs, and when a SIGINT handler
\* deletes an entry after its close(), the registry loses the entry of that
\* session only: every other entry stays, in place
C28_OnlyOwnEntry ==
  [][/\ \A t \in Opens :
          tr'[t].runs > tr[t].runs => registry' = Without(registry, tr[t].sid)
     /\ \A k \in Signals :
          (sweep[k].pc = "awaiting" /\ sweep[k].res = "ok" /\ Resumed(k)) =>
            registry' = Without(registry, sweep[k].cur)]_vars

\* a session reported closure and is gone while a session registered
\* before it is still in the registry
C28_Witness ==
  \E t1, t2 \in Opens :
    /\ t2 < t1
    /\ tr[t1].runs = 1 /\ ~Holds(registry, t1)
    /\ Holds(registry, t2) /\ tr[t2].runs = 0

\* C29: a SIGINT handler that resumes after a close() deletes the entry
\* exactly when the close() resolved; so an entry still in the registry when
\* the process exits is for a transport whose on_close never ran and that
\* either no SIGINT handler called close() on (it was registered after the
\* loop passed), or whose close() failed, or whose close() another SIGINT
\* handler still awaits
C29_LeftAtExit ==
  [][/\ \A k \in Signals :
          (/\ sweep[k].pc = "awaiting" /\ sweep[k].res \in {"ok", "err"}
           /\ Resumed(k)) =>
            registry' = IF sweep[k].res = "ok"
                        THEN Without(registry, sweep[k].cur)
                        ELSE registry
     /\ exited' =>
          \A i \in DOMAIN registry' :
            LET t == registry'[i].t IN
            /\ tr'[t].runs = 0
            /\ \/ tr'[t].swept = 0
               \/ tr'[t].st = "Closed"
               \/ \E k \in Signals :
                    sweep'[k].pc = "awaiting" /\ sweep'[k].curT = t]_vars

\* the process exited with two entries left: one whose close() threw and
\* one registered while the handler awaited that close()
C29_Witness ==
  /\ exited
  /\ \E t1, t2 \in Opens :
       /\ Holds(registry, t1) /\ tr[t1].swept = 1 /\ tr[t1].st = "Closed"
       /\ Holds(registry, t2) /\ tr[t2].swept = 0 /\ IsLive(tr[t2].st)

\* C30: if every teardown that was started completes or fails, then once a
\* SIGINT handler has started the process eventually exits; and a handler
\* leaves its await only when the close() it awaits has settled
C30_ShutdownTerminates ==
  /\ (\A t \in Opens : WF_vars(CloseFinish(t) \/ CloseFail(t))) =>
       ((\E k \in Signals : sweep[k].pc # "idle") ~> exited)
  /\ [][\A k \in Signals :
          (sweep[k].pc = "awaiting" /\ Resumed(k) /\ sweep'[k].cur # sweep[k].cur)
            => sweep[k].res \in {"ok", "err"}]_vars

\* the process exited after a handler awaited two close() calls, one of
\* which threw
C30_Witness ==
  /\ exited
  /\ \E k \in Signals : sweep[k].pc = "exited" /\ sweep[k].errs = 1
  /\ \E t1, t2 \in Opens :
       /\ t1 # t2
       /\ tr[t1].swept = 1 /\ tr[t1].runs = 1
       /\ tr[t2].swept = 1 /\ tr[t2].runs = 0 /\ tr[t2].st = "Closed"

====
